---- MODULE Spec2Model ----
(***************************************************************************)
(* Model of streamlit_app.py: one run of the Streamlit script that fetches *)
(* emergency-room data, normalises it, derives the congestion index and    *)
(* label, applies the sidebar filters, computes distances, ranks the TOP 5 *)
(* and renders the map and the full list.                                  *)
(*                                                                         *)
(* Numbers: bed/patient counts and coordinates are integers; a congestion  *)
(* index is kept in hundredths (0.25 is 25).  A float value is a record    *)
(* [t, v]: t = "num" (finite, v), "nan" (pandas' missing value), "inf"     *)
(* (v = 1 for +inf, -1 for -inf).                                          *)
(* Strings are sequences of one-character strings; an optional string is a *)
(* record [t, v] with t = "none" or "str".                                 *)
(* Labels: "LOW" is 여유, "MEDIUM" is 보통, "HIGH" is 혼잡, "UNKNOWN" is       *)
(* 정보없음.                                                                *)
(***************************************************************************)
EXTENDS Integers, Sequences, FiniteSets, TLC

VARIABLES pc, resp, df, err, shown,
          sido_sel, name_query, cong_sel, lat_input, lon_input,
          use_location, my_latlon, df_f, df_rank, center, markers, df_view

vars == <<pc, resp, df, err, shown,
          sido_sel, name_query, cong_sel, lat_input, lon_input,
          use_location, my_latlon, df_f, df_rank, center, markers, df_view>>

\* ----------------------------------------------------------------- bounds
MaxItems == 2
MaxBeds == 2
MaxPatients == 2
MaxQuery == 2
MaxRows == 6
MaxMetricRows == 1

\* ------------------------------------------------------ program constants
\* head(5); the label thresholds 0.5 and 1.0 in hundredths; the default map
\* centre (37.5665, 126.9780) in whole degrees
TopN == 5
LowBelow == 50
MediumBelow == 100
DefaultLat == 37
DefaultLon == 126

\* ----------------------------------------------------------------- values
Num(v) == [t |-> "num", v |-> v]
NaN == [t |-> "nan", v |-> 0]
Inf(s) == [t |-> "inf", v |-> s]
IsNaN(x) == x.t = "nan"

Str(s) == [t |-> "str", v |-> s]
NoneStr == [t |-> "none", v |-> <<>>]

\* a raw JSON field that is read as a number
RawNum(v) == [t |-> "num", v |-> v]
RawAbsent == [t |-> "absent", v |-> 0]
RawBad == [t |-> "bad", v |-> 0]

Abs(x) == IF x < 0 THEN -x ELSE x

\* total order of float values as pandas sorts them, NaN excluded
FloatLess(a, b) ==
  CASE a.t = "inf" /\ a.v = -1 -> ~(b.t = "inf" /\ b.v = -1)
    [] a.t = "inf" /\ a.v = 1 -> FALSE
    [] a.t = "num" -> (b.t = "inf" /\ b.v = 1) \/ (b.t = "num" /\ a.v < b.v)
    [] OTHER -> FALSE

\* ------------------------------------------------------- fetch_data parts
\* pd.to_numeric(errors="coerce")
to_numeric(raw) == IF raw.t = "num" THEN Num(raw.v) ELSE NaN

\* Series.round(2) of n/d (d # 0) in hundredths: nearest, ties to even
Round2(n, d) ==
  LET nn == IF d < 0 THEN -100 * n ELSE 100 * n
      dd == Abs(d)
      q == nn \div dd
      r == nn - q * dd
  IN  IF 2 * r < dd THEN q
      ELSE IF 2 * r > dd THEN q + 1
      ELSE IF q % 2 = 0 THEN q ELSE q + 1

\* the index without fillna(0): missing beds make the index missing
CongestionIndex_NoFillna(hvec, hvoc) ==
  IF IsNaN(hvoc) \/ IsNaN(hvec) THEN NaN
  ELSE IF hvec.v + 1 = 0
    THEN (IF hvoc.v > 0 THEN Inf(1) ELSE IF hvoc.v < 0 THEN Inf(-1) ELSE NaN)
  ELSE Num(Round2(hvoc.v, hvec.v + 1))

\* (df["hvoc"] / (df["hvec"].fillna(0) + 1)).round(2)
CongestionIndex(hvec, hvoc) ==
  LET den == (IF IsNaN(hvec) THEN 0 ELSE hvec.v) + 1
  IN  IF IsNaN(hvoc) THEN NaN
      ELSE IF den = 0
        THEN (IF hvoc.v > 0 THEN Inf(1) ELSE IF hvoc.v < 0 THEN Inf(-1) ELSE NaN)
      ELSE Num(Round2(hvoc.v, den))

\* the thresholds with <= in place of <
label_cong_UpperInclusive(x) ==
  IF IsNaN(x) THEN "UNKNOWN"
  ELSE IF ~FloatLess(Num(LowBelow), x) THEN "LOW"
  ELSE IF ~FloatLess(Num(MediumBelow), x) THEN "MEDIUM"
  ELSE "HIGH"

label_cong(x) ==
  IF IsNaN(x) THEN "UNKNOWN"
  ELSE IF FloatLess(x, Num(LowBelow)) THEN "LOW"
  ELSE IF FloatLess(x, Num(MediumBelow)) THEN "MEDIUM"
  ELSE "HIGH"

RECURSIVE SkipSpaces(_)
SkipSpaces(s) ==
  IF s = <<>> THEN <<>>
  ELSE IF Head(s) = " " THEN SkipSpaces(Tail(s)) ELSE s

RECURSIVE TakeToken(_)
TakeToken(s) ==
  IF s = <<>> \/ Head(s) = " " THEN <<>>
  ELSE <<Head(s)>> \o TakeToken(Tail(s))

\* addr.split()[0] when addr is a non-blank string, else None
get_sido(addr) ==
  IF addr.t = "str" /\ SkipSpaces(addr.v) # <<>>
    THEN Str(TakeToken(SkipSpaces(addr.v)))
    ELSE NoneStr

\* one row of the frame before dropna; ix is the position in item_list
MakeRow(item, i) ==
  LET hvec == to_numeric(item.hvec)
      hvoc == to_numeric(item.hvoc)
      index == CongestionIndex(hvec, hvoc)
  IN  [ix |-> i,
       dutyName |-> item.dutyName,
       dutyAddr |-> item.dutyAddr,
       dutyTel3 |-> item.dutyTel3,
       hvec |-> hvec,
       hvoc |-> hvoc,
       wgs84Lat |-> to_numeric(item.wgs84Lat),
       wgs84Lon |-> to_numeric(item.wgs84Lon),
       updated |-> item.hvidate,
       congestion_index |-> index,
       region |-> get_sido(item.dutyAddr),
       congestion_label |-> label_cong(index),
       distance_km |-> NaN]

\* dropna() without the subset: a row with any missing value is dropped
KeepRow_AnyNull(row) ==
  /\ ~IsNaN(row.wgs84Lat) /\ ~IsNaN(row.wgs84Lon)
  /\ ~IsNaN(row.hvec) /\ ~IsNaN(row.hvoc)
  /\ row.dutyName.t = "str" /\ row.dutyAddr.t = "str"
  /\ row.dutyTel3.t = "str" /\ row.updated.t = "str"

\* dropna(subset=["wgs84Lat", "wgs84Lon"])
KeepRow(row) == ~IsNaN(row.wgs84Lat) /\ ~IsNaN(row.wgs84Lon)

RECURSIVE SelectRows(_, _)
SelectRows(rows, keep) ==
  IF rows = <<>> THEN <<>>
  ELSE IF keep[Head(rows).ix]
    THEN <<Head(rows)>> \o SelectRows(Tail(rows), keep)
    ELSE SelectRows(Tail(rows), keep)

\* reset_index(drop=True)
ResetIndex(rows) == [i \in 1..Len(rows) |-> [rows[i] EXCEPT !.ix = i]]

Normalize(items) ==
  LET rows == [i \in 1..Len(items) |-> MakeRow(items[i], i)]
      keep == [i \in 1..Len(items) |-> KeepRow(rows[i])]
  IN  ResetIndex(SelectRows(rows, keep))

NoneDF == [isnone |-> TRUE, rows |-> <<>>]
Frame(rows) == [isnone |-> FALSE, rows |-> rows]

\* shapes of a JSON body whose item list is absent or empty
EmptyShapes == {"no_response", "no_body", "no_items", "items_empty_string",
                "items_null", "no_item", "item_null", "item_empty_list"}

\* the result of fetch_data: what it returns, or that it raised
fetch_data(r) ==
  IF r.kind = "exception"
    THEN [raised |-> FALSE, df |-> NoneDF, err |-> "request_failed"]
  ELSE IF r.status # 200
    THEN [raised |-> FALSE, df |-> NoneDF, err |-> "http_status"]
  ELSE IF r.json = "invalid"
    THEN [raised |-> FALSE, df |-> NoneDF, err |-> "not_json"]
  ELSE IF r.json \in {"items_empty_string", "items_null"}
    \* items.get("item") on a str or None: AttributeError
    THEN [raised |-> TRUE, df |-> NoneDF, err |-> "none"]
  ELSE IF r.json \in EmptyShapes
    THEN [raised |-> FALSE, df |-> NoneDF, err |-> "empty_item"]
  ELSE IF r.json = "item_dict"
    \* pd.DataFrame of a dict of scalars: ValueError
    THEN [raised |-> TRUE, df |-> NoneDF, err |-> "none"]
  ELSE [raised |-> FALSE, df |-> Frame(Normalize(r.items)), err |-> "none"]

\* ------------------------------------------------------------ name filter
Lower(c) == IF c = "A" THEN "a" ELSE IF c = "B" THEN "b" ELSE c

\* re.compile(pat): "(" is never closed, "*" needs something to repeat and
\* cannot follow another "*"
RegexCompiles(pat) ==
  /\ \A i \in 1..Len(pat) : pat[i] # "("
  /\ pat # <<>> => pat[1] # "*"
  /\ \A i \in 1..(Len(pat) - 1) : ~(pat[i] = "*" /\ pat[i + 1] = "*")

\* the atoms of a pattern that compiles: a character or ".", starred or not
RECURSIVE RegexAtoms(_)
RegexAtoms(pat) ==
  IF pat = <<>> THEN <<>>
  ELSE IF Len(pat) >= 2 /\ pat[2] = "*"
    THEN <<[c |-> pat[1], star |-> TRUE]>> \o RegexAtoms(SubSeq(pat, 3, Len(pat)))
    ELSE <<[c |-> pat[1], star |-> FALSE]>> \o RegexAtoms(Tail(pat))

\* re.IGNORECASE match of one atom character against one character
AtomMatches(c, x) == c = "." \/ Lower(c) = Lower(x)

\* the atoms from k on match s from position j on
RECURSIVE MatchFrom(_, _, _, _)
MatchFrom(atoms, k, s, j) ==
  IF k > Len(atoms) THEN TRUE
  ELSE IF atoms[k].star
    THEN \/ MatchFrom(atoms, k + 1, s, j)
         \/ /\ j <= Len(s)
            /\ AtomMatches(atoms[k].c, s[j])
            /\ MatchFrom(atoms, k, s, j + 1)
    ELSE /\ j <= Len(s)
         /\ AtomMatches(atoms[k].c, s[j])
         /\ MatchFrom(atoms, k + 1, s, j + 1)

\* regex.search(s)
RegexSearch(pat, s) ==
  \E j \in 1..(Len(s) + 1) : MatchFrom(RegexAtoms(pat), 1, s, j)

\* one element of Series.str.contains(pat, case=False, na=False)
NameContains(name, pat) == name.t = "str" /\ RegexSearch(pat, name.v)

\* --------------------------------------------------------------- filters
Jeonche == <<"ALL">>

RegionPasses(row, sel) == sel = Jeonche \/ row.region = Str(sel)
NamePasses(row, q) == q = <<>> \/ NameContains(row.dutyName, q)
LabelPasses(row, sel) == row.congestion_label \in sel

\* the name filter raises re.error when the query does not compile and the
\* frame it is applied to exists (the pattern is compiled even for no rows)
NameFilterRaises(q) == q # <<>> /\ ~RegexCompiles(q)

ApplyFiltersTo(rows, sido, q, cong) ==
  SelectRows(rows, [i \in 1..Len(rows) |->
     /\ RegionPasses(rows[i], sido)
     /\ NamePasses(rows[i], q)
     /\ LabelPasses(rows[i], cong)])

\* ---------------------------------------------------- reference location
\* float(text): the value, or ValueError
ParseFloat(text) ==
  CASE text = "0" -> [ok |-> TRUE, val |-> Num(0)]
    [] text = "1" -> [ok |-> TRUE, val |-> Num(1)]
    [] text = "2" -> [ok |-> TRUE, val |-> Num(2)]
    [] text = "200" -> [ok |-> TRUE, val |-> Num(200)]
    [] text = "nan" -> [ok |-> TRUE, val |-> NaN]
    [] OTHER -> [ok |-> FALSE, val |-> NaN]

NoLocation == [given |-> FALSE, lat |-> NaN, lon |-> NaN]

\* lines 160-167: the pair is read only when both texts are non-empty
ParseLocation(lat, lon) ==
  IF lat # "" /\ lon # "" /\ ParseFloat(lat).ok /\ ParseFloat(lon).ok
    THEN [given |-> TRUE, lat |-> ParseFloat(lat).val, lon |-> ParseFloat(lon).val]
    ELSE NoLocation

LocationWarns(lat, lon) ==
  lat # "" /\ lon # "" /\ ~(ParseFloat(lat).ok /\ ParseFloat(lon).ok)

\* geopy.Point accepts finite coordinates with latitude in [-90, 90]
PointValid(lat, lon) ==
  lat.t = "num" /\ lon.t = "num" /\ lat.v >= -90 /\ lat.v <= 90

NormLat(v) == ((v + 90) % 180) - 90
NormLon(v) == ((v + 180) % 360) - 180

\* round(geodesic(a, b).km, 2) on the integer grid, in grid units
Geodesic(lat1, lon1, lat2, lon2) ==
  IF lat1.t = "num" /\ lon1.t = "num" /\ lat2.t = "num" /\ lon2.t = "num"
    THEN Num(Abs(NormLat(lat1.v) - NormLat(lat2.v))
             + Abs(NormLon(lon1.v) - NormLon(lon2.v)))
    ELSE NaN

WithDistance(rows, loc) ==
  [i \in 1..Len(rows) |->
     [rows[i] EXCEPT !.distance_km =
        Geodesic(loc.lat, loc.lon, rows[i].wgs84Lat, rows[i].wgs84Lon)]]

\* ----------------------------------------------------------------- sorts
\* one sort key, ascending, na_position="first"
KeyLess_NaFirst(x, y) ==
  IF IsNaN(y) THEN FALSE ELSE IF IsNaN(x) THEN TRUE ELSE FloatLess(x, y)

\* one sort key, ascending, na_position="last"
KeyLess(x, y) ==
  IF IsNaN(x) THEN FALSE ELSE IF IsNaN(y) THEN TRUE ELSE FloatLess(x, y)

KeyEq(x, y) == ~KeyLess(x, y) /\ ~KeyLess(y, x)

\* by = "rank": (congestion index, distance); by = "view": congestion index
RowLess(by, a, b) ==
  \/ KeyLess(a.congestion_index, b.congestion_index)
  \/ /\ by = "rank"
     /\ KeyEq(a.congestion_index, b.congestion_index)
     /\ KeyLess(a.distance_km, b.distance_km)

\* row goes before the first row that is not less than it: ties reversed
RECURSIVE InsertSorted_BeforeEqual(_, _, _)
InsertSorted_BeforeEqual(by, row, sorted) ==
  IF sorted = <<>> THEN <<row>>
  ELSE IF ~RowLess(by, Head(sorted), row)
    THEN <<row>> \o sorted
    ELSE <<Head(sorted)>> \o InsertSorted_BeforeEqual(by, row, Tail(sorted))

\* row goes after every row that is not greater than it
RECURSIVE InsertSorted(_, _, _)
InsertSorted(by, row, sorted) ==
  IF sorted = <<>> THEN <<row>>
  ELSE IF RowLess(by, row, Head(sorted))
    THEN <<row>> \o sorted
    ELSE <<Head(sorted)>> \o InsertSorted(by, row, Tail(sorted))

RECURSIVE SortFrom(_, _, _)
SortFrom(by, rows, sorted) ==
  IF rows = <<>> THEN sorted
  ELSE SortFrom(by, Tail(rows), InsertSorted(by, Head(rows), sorted))

sort_values(by, rows) == SortFrom(by, rows, <<>>)

head(rows, n) == SubSeq(rows, 1, IF Len(rows) < n THEN Len(rows) ELSE n)

\* ------------------------------------------------------------------- map
color_of(label) ==
  CASE label = "LOW" -> "green"
    [] label = "MEDIUM" -> "orange"
    [] label = "HIGH" -> "red"
    [] OTHER -> "gray"

MapCenter(loc, rows) ==
  IF loc.given THEN <<loc.lat, loc.lon>>
  ELSE IF rows # <<>> THEN <<rows[1].wgs84Lat, rows[1].wgs84Lon>>
  ELSE <<Num(DefaultLat), Num(DefaultLon)>>

Markers(rows) ==
  [i \in 1..Len(rows) |->
     [ix |-> rows[i].ix,
      location |-> <<rows[i].wgs84Lat, rows[i].wgs84Lon>>,
      color |-> color_of(rows[i].congestion_label)]]

\* ---------------------------------------------------------------- inputs
Lists(S, n) == UNION {[1..k -> S] : k \in 1..n}

Labels == {"LOW", "MEDIUM", "HIGH", "UNKNOWN"}
DefaultCong == {"LOW", "MEDIUM", "HIGH"}

BaseItem ==
  [dutyName |-> Str(<<"a", "B">>),
   dutyAddr |-> Str(<<"S", " ", "g">>),
   dutyTel3 |-> Str(<<"1">>),
   hvec |-> RawNum(1),
   hvoc |-> RawNum(1),
   wgs84Lat |-> RawNum(0),
   wgs84Lon |-> RawNum(0),
   hvidate |-> Str(<<"t">>)]

\* an item that has nothing but (possibly) its coordinates
BareItem ==
  [dutyName |-> NoneStr,
   dutyAddr |-> NoneStr,
   dutyTel3 |-> NoneStr,
   hvec |-> RawBad,
   hvoc |-> RawAbsent,
   wgs84Lat |-> RawNum(0),
   wgs84Lon |-> RawNum(0),
   hvidate |-> NoneStr]

Ok200(shape, items) ==
  [kind |-> "http", status |-> 200, json |-> shape, items |-> items]

NoResponse == [kind |-> "pending", status |-> 0, json |-> "invalid", items |-> <<>>]

FailedResponses ==
  {[kind |-> "exception", status |-> 0, json |-> "invalid", items |-> <<>>],
   [kind |-> "http", status |-> 500, json |-> "invalid", items |-> <<>>],
   [kind |-> "http", status |-> 404, json |-> "no_response", items |-> <<>>],
   Ok200("invalid", <<>>)}
  \cup {Ok200(shape, <<>>) : shape \in EmptyShapes}
  \cup {Ok200("item_dict", <<BaseItem>>)}

ItemLists(items, n) == {Ok200("item_list", l) : l \in Lists(items, n)}

\* the run as a whole: every kind of response, every kind of location text
MainItems ==
  {BaseItem,
   [BaseItem EXCEPT !.hvoc = RawAbsent, !.dutyAddr = Str(<<"B">>)],
   [BaseItem EXCEPT !.wgs84Lat = RawAbsent]}
MainResponses == FailedResponses \cup ItemLists(MainItems, MaxItems)
MainQueries == {<<>>, <<"a">>}
MainCong == {DefaultCong, Labels, {}}
MainLats == {"", "abc", "0", "200", "nan"}
MainLons == {"", "abc", "0", "nan"}

\* normalisation: coordinates present, absent or unparseable
NormItems ==
  {[it EXCEPT !.wgs84Lat = la, !.wgs84Lon = lo] :
     it \in {BaseItem, BareItem},
     la \in {RawAbsent, RawBad, RawNum(0), RawNum(1)},
     lo \in {RawAbsent, RawNum(0)}}
NormResponses == ItemLists(NormItems, MaxItems)

\* metric: every combination of beds and patients
BedValues == {RawAbsent, RawBad} \cup {RawNum(v) : v \in (-3)..MaxBeds}
PatientValues == {RawAbsent, RawBad} \cup {RawNum(v) : v \in (-1)..MaxPatients}
MetricItems ==
  {[BaseItem EXCEPT !.hvec = b, !.hvoc = p] : b \in BedValues, p \in PatientValues}
MetricResponses == ItemLists(MetricItems, MaxMetricRows)

\* name filter: names and queries over a small alphabet
QueryChars == {"a", "B", ".", "*", "("}
NameValues ==
  {NoneStr, Str(<<"a", "B">>), Str(<<"b">>), Str(<<"a", ".">>), Str(<<"(", "b">>)}
NameItems == {[BaseItem EXCEPT !.dutyName = n] : n \in NameValues}
NameResponses == ItemLists(NameItems, MaxItems)
NameQueries == {<<>>} \cup Lists(QueryChars, MaxQuery)

\* ranking: up to MaxRows rows with tied and missing keys
RankItems ==
  {[BaseItem EXCEPT !.hvoc = RawAbsent],
   BaseItem,
   [BaseItem EXCEPT !.wgs84Lat = RawNum(1)],
   [BaseItem EXCEPT !.hvoc = RawNum(0)]}
RankResponses == ItemLists(RankItems, MaxRows)

\* ---------------------------------------------------------------- actions
Init ==
  /\ pc = "fetch"
  /\ resp = NoResponse
  /\ df = NoneDF
  /\ err = "none"
  /\ shown = {}
  /\ sido_sel = Jeonche
  /\ name_query = <<>>
  /\ cong_sel = DefaultCong
  /\ lat_input = ""
  /\ lon_input = ""
  /\ use_location = FALSE
  /\ my_latlon = NoLocation
  /\ df_f = <<>>
  /\ df_rank = <<>>
  /\ center = <<NaN, NaN>>
  /\ markers = <<>>
  /\ df_view = <<>>

\* line 124-126: df, err = fetch_data(), then the debug echo
FetchData(responses) ==
  /\ pc = "fetch"
  /\ \E r \in responses :
       LET res == fetch_data(r)
       IN  /\ resp' = r
           /\ df' = res.df
           /\ err' = res.err
           /\ pc' = IF res.raised THEN "raised" ELSE "gate"
           /\ shown' = IF res.raised THEN shown ELSE shown \cup {"debug"}
  /\ UNCHANGED <<sido_sel, name_query, cong_sel, lat_input, lon_input,
                 use_location, my_latlon, df_f, df_rank, center, markers, df_view>>

\* lines 130-136: st.error / st.warning and st.stop()
ErrorGate ==
  /\ pc = "gate"
  /\ IF err # "none"
       THEN pc' = "stopped" /\ shown' = shown \cup {"error"}
     ELSE IF df.isnone \/ df.rows = <<>>
       THEN pc' = "stopped" /\ shown' = shown \cup {"no_data_warning"}
     ELSE pc' = "sidebar" /\ shown' = shown
  /\ UNCHANGED <<resp, df, err, sido_sel, name_query, cong_sel, lat_input,
                 lon_input, use_location, my_latlon, df_f, df_rank, center,
                 markers, df_view>>

\* line 142: ["전체"] + the regions present
SidoList(rows) ==
  {Jeonche} \cup {rows[i].region.v : i \in {j \in 1..Len(rows) : rows[j].region.t = "str"}}

\* lines 139-167: the widgets' values and the reference location
Sidebar(queries, congs, lats, lons) ==
  /\ pc = "sidebar"
  /\ \E sido \in SidoList(df.rows), q \in queries, cs \in congs,
        la \in lats, lo \in lons :
       /\ sido_sel' = sido
       /\ name_query' = q
       /\ cong_sel' = cs
       /\ lat_input' = la
       /\ lon_input' = lo
       /\ my_latlon' = ParseLocation(la, lo)
       /\ use_location' = ParseLocation(la, lo).given
       /\ shown' = IF LocationWarns(la, lo)
                     THEN shown \cup {"location_warning"} ELSE shown
  /\ pc' = "filter"
  /\ UNCHANGED <<resp, df, err, df_f, df_rank, center, markers, df_view>>

\* lines 170-178
ApplyFilters ==
  /\ pc = "filter"
  /\ IF NameFilterRaises(name_query)
       THEN pc' = "raised" /\ df_f' = df_f
       ELSE /\ pc' = "distance"
            /\ df_f' = ApplyFiltersTo(df.rows, sido_sel, name_query, cong_sel)
  /\ UNCHANGED <<resp, df, err, shown, sido_sel, name_query, cong_sel, lat_input,
                 lon_input, use_location, my_latlon, df_rank, center, markers,
                 df_view>>

\* lines 181-189.  strict: the installed geopy rejects a point that is not
\* valid (newer releases) instead of normalising it (older releases), and
\* the installed pandas rejects the frame that apply returns for no rows.
ComputeDistance ==
  /\ pc = "distance"
  /\ \E strict \in BOOLEAN :
       IF ~use_location
         THEN pc' = "rank" /\ df_f' = df_f
       ELSE IF df_f = <<>>
         THEN pc' = (IF strict THEN "raised" ELSE "rank") /\ df_f' = df_f
       ELSE IF ~PointValid(my_latlon.lat, my_latlon.lon) /\ strict
         THEN pc' = "raised" /\ df_f' = df_f
       ELSE pc' = "rank" /\ df_f' = WithDistance(df_f, my_latlon)
  /\ UNCHANGED <<resp, df, err, shown, sido_sel, name_query, cong_sel, lat_input,
                 lon_input, use_location, my_latlon, df_rank, center, markers,
                 df_view>>

\* lines 192-209
Recommend ==
  /\ pc = "rank"
  /\ IF use_location
       THEN /\ df_rank' = head(sort_values("rank", df_f), TopN)
            /\ shown' = shown \cup {"top5"}
       ELSE /\ df_rank' = df_rank
            /\ shown' = shown \cup {"info"}
  /\ pc' = "map"
  /\ UNCHANGED <<resp, df, err, sido_sel, name_query, cong_sel, lat_input,
                 lon_input, use_location, my_latlon, df_f, center, markers,
                 df_view>>

\* lines 212-261.  strict: the installed folium rejects a NaN location.
RenderMap ==
  /\ pc = "map"
  /\ \E strict \in BOOLEAN :
       LET c == MapCenter(my_latlon, df_f)
       IN  IF strict /\ (IsNaN(c[1]) \/ IsNaN(c[2]))
             THEN /\ pc' = "raised"
                  /\ UNCHANGED <<center, markers, shown>>
             ELSE /\ pc' = "list"
                  /\ center' = c
                  /\ markers' = Markers(df_f)
                  /\ shown' = shown \cup {"map"}
  /\ UNCHANGED <<resp, df, err, sido_sel, name_query, cong_sel, lat_input,
                 lon_input, use_location, my_latlon, df_f, df_rank, df_view>>

\* lines 272-286
RenderList ==
  /\ pc = "list"
  /\ df_view' = sort_values("view", df_f)
  /\ shown' = shown \cup {"list"}
  /\ pc' = "done"
  /\ UNCHANGED <<resp, df, err, sido_sel, name_query, cong_sel, lat_input,
                 lon_input, use_location, my_latlon, df_f, df_rank, center,
                 markers>>

Render == ErrorGate \/ ApplyFilters \/ ComputeDistance \/ Recommend
          \/ RenderMap \/ RenderList

\* One run of the script.  The specifications differ only in the responses
\* and widget values they draw: Spec every kind of response and location
\* text, SpecNorm the coordinates of the items, SpecMetric their beds and
\* patients, SpecName names and name queries, SpecRank up to MaxRows rows
\* with tied and missing sort keys.
Next ==
  \/ FetchData(MainResponses)
  \/ Sidebar(MainQueries, MainCong, MainLats, MainLons)
  \/ Render

Spec == Init /\ [][Next]_vars

NextNorm ==
  \/ FetchData(NormResponses)
  \/ Sidebar({<<>>}, {Labels}, {"", "0"}, {"0"})
  \/ Render

SpecNorm == Init /\ [][NextNorm]_vars

NextMetric ==
  \/ FetchData(MetricResponses)
  \/ Sidebar({<<>>}, {Labels}, {"", "0"}, {"0"})
  \/ Render

SpecMetric == Init /\ [][NextMetric]_vars

NextName ==
  \/ FetchData(NameResponses)
  \/ Sidebar(NameQueries, {Labels}, {""}, {""})
  \/ Render

SpecName == Init /\ [][NextName]_vars

NextRank ==
  \/ FetchData(RankResponses)
  \/ Sidebar({<<>>}, {Labels}, {"0"}, {"0"})
  \/ Render

SpecRank == Init /\ [][NextRank]_vars

\* ----------------------------------------------------------------- claims
Fetched == pc # "fetch"
HasFrame == Fetched /\ ~df.isnone
Filtered == pc \in {"distance", "rank", "map", "list", "done"}
Ranked == use_location /\ pc \in {"map", "list", "done"}

NonNegative(x) == IsNaN(x) \/ (x.t = "num" /\ x.v >= 0) \/ (x.t = "inf" /\ x.v = 1)

\* C1: every row fetch_data produces has a congestion index that is null
\* or >= 0, whatever the beds and patients of the raw item are.
C1_IndexNeverNegative ==
  HasFrame => \A i \in 1..Len(df.rows) : NonNegative(df.rows[i].congestion_index)

\* C2: a 200 response whose JSON has no item list, or an empty one, at any
\* level makes fetch_data return the empty-result failure and raise nothing.
C2_EmptyItemListIsEmptyResult ==
  (Fetched /\ resp.kind = "http" /\ resp.status = 200 /\ resp.json \in EmptyShapes)
    => (pc # "raised" /\ df.isnone /\ err = "empty_item")

FetchFails ==
  \/ resp.kind = "exception"
  \/ resp.kind = "http" /\ resp.status # 200
  \/ resp.kind = "http" /\ resp.json = "invalid"
  \/ resp.kind = "http" /\ resp.json \in EmptyShapes

\* C3: a failed fetch returns (None, message), the message is shown and the
\* run stops before any later stage; fetch_data always returns exactly one
\* of a dataset and an error message.
C3_FetchFailureIsTerminal ==
  Fetched =>
    /\ df.isnone # (err = "none")
    /\ FetchFails => /\ df.isnone
                     /\ err # "none"
                     /\ pc \in {"gate", "stopped"}
                     /\ pc = "stopped" => "error" \in shown

\* a pair of texts that was supplied and is not a valid coordinate
InvalidPair(lat, lon) ==
  /\ lat # "" /\ lon # ""
  /\ \/ ~ParseFloat(lat).ok
     \/ ~ParseFloat(lon).ok
     \/ ~PointValid(ParseFloat(lat).val, ParseFloat(lon).val)

\* C4: a reference location that is not a valid coordinate never aborts the
\* run: use_location is false, every distance is null, there is no TOP 5,
\* and the map and the full list are rendered.
C4_InvalidLocationDisablesDistance ==
  (pc \in {"filter", "distance", "rank", "map", "list", "done", "raised"}
     /\ InvalidPair(lat_input, lon_input))
    => /\ pc # "raised"
       /\ ~use_location
       /\ \A i \in 1..Len(df_f) : IsNaN(df_f[i].distance_km)
       /\ "top5" \notin shown
       /\ pc = "done" => {"map", "list"} \subseteq shown

HasCoordinates(item) == item.wgs84Lat.t = "num" /\ item.wgs84Lon.t = "num"

\* the position in items of the k-th item that has both coordinates
KthWithCoordinates(items, k) ==
  CHOOSE i \in 1..Len(items) :
    /\ HasCoordinates(items[i])
    /\ Cardinality({j \in 1..i : HasCoordinates(items[j])}) = k

\* C5: the dataset is exactly the items whose latitude and longitude both
\* parse to a number, in input order, whatever else an item lacks.
C5_ExactlyRowsWithCoordinates ==
  (HasFrame /\ resp.json = "item_list") =>
    LET items == resp.items
        rows == df.rows
    IN  /\ Len(rows) = Cardinality({i \in 1..Len(items) : HasCoordinates(items[i])})
        /\ \A k \in 1..Len(rows) :
             LET item == items[KthWithCoordinates(items, k)]
             IN  /\ rows[k].wgs84Lat = Num(item.wgs84Lat.v)
                 /\ rows[k].wgs84Lon = Num(item.wgs84Lon.v)
                 /\ rows[k].dutyName = item.dutyName
                 /\ rows[k].dutyAddr = item.dutyAddr
                 /\ rows[k].dutyTel3 = item.dutyTel3
                 /\ rows[k].updated = item.hvidate

\* an item without its latitude is dropped and the bare item after it kept
C5_Witness ==
  /\ pc = "done"
  /\ Len(resp.items) = 2
  /\ ~HasCoordinates(resp.items[1])
  /\ resp.items[2] = [BareItem EXCEPT !.wgs84Lat = RawNum(1)]
  /\ Len(df.rows) = 1
  /\ df.rows[1].dutyName = NoneStr

\* C6: the label is decided by the index alone: null UNKNOWN, below 0.5
\* LOW, from 0.5 and below 1.0 MEDIUM, from 1.0 HIGH.
C6_LabelThresholds ==
  HasFrame =>
    \A i \in 1..Len(df.rows) :
      LET x == df.rows[i].congestion_index
          l == df.rows[i].congestion_label
      IN  /\ l \in Labels
          /\ x.t = "nan" => l = "UNKNOWN"
          /\ (x.t = "inf" /\ x.v = -1) => l = "LOW"
          /\ (x.t = "num" /\ x.v < 50) => l = "LOW"
          /\ (x.t = "num" /\ x.v >= 50 /\ x.v < 100) => l = "MEDIUM"
          /\ (x.t = "num" /\ x.v >= 100) => l = "HIGH"
          /\ (x.t = "inf" /\ x.v = 1) => l = "HIGH"

\* an index of exactly 0.5 is labelled MEDIUM
C6_Witness ==
  /\ pc = "done"
  /\ \E i \in 1..Len(df.rows) :
       /\ df.rows[i].congestion_index = Num(50)
       /\ df.rows[i].congestion_label = "MEDIUM"

\* C7: the index is patients / (beds + 1) to the nearest hundredth, beds
\* that are missing or unparseable counting as 0; missing or unparseable
\* patients give a null index and the label UNKNOWN.  A zero denominator
\* gives the float quotient: an infinity, or NaN for 0 / 0.
C7_IndexFormula ==
  (HasFrame /\ resp.json = "item_list" /\ Len(df.rows) = Len(resp.items)) =>
    \A i \in 1..Len(df.rows) :
      LET item == resp.items[i]
          row == df.rows[i]
          beds == IF item.hvec.t = "num" THEN item.hvec.v ELSE 0
          den == beds + 1
      IN  /\ item.hvoc.t # "num" =>
               (IsNaN(row.congestion_index) /\ row.congestion_label = "UNKNOWN")
          /\ (item.hvoc.t = "num" /\ den # 0) =>
               /\ row.congestion_index.t = "num"
               /\ 2 * Abs(row.congestion_index.v * den - 100 * item.hvoc.v) <= Abs(den)
          /\ (item.hvoc.t = "num" /\ den = 0) => row.congestion_index.t # "num"

\* beds missing and 2 patients: index 2.0, label HIGH
C7_Witness ==
  /\ pc = "done"
  /\ \E i \in 1..Len(df.rows) :
       /\ resp.items[i].hvec = RawAbsent
       /\ resp.items[i].hvoc = RawNum(2)
       /\ df.rows[i].congestion_index = Num(200)
       /\ df.rows[i].congestion_label = "HIGH"

\* no row with a null index stands before a row with a non-null index
IndexNullLast(rows) ==
  \A i, j \in 1..Len(rows) :
    (i < j /\ IsNaN(rows[i].congestion_index)) => IsNaN(rows[j].congestion_index)

\* among rows of equal index no null distance stands before a non-null one
DistanceNullLast(rows) ==
  \A i, j \in 1..Len(rows) :
    (i < j /\ rows[i].congestion_index = rows[j].congestion_index
       /\ IsNaN(rows[i].distance_km)) => IsNaN(rows[j].distance_km)

NonNullCount(rows) ==
  Cardinality({i \in 1..Len(rows) : ~IsNaN(rows[i].congestion_index)})

\* C8: in the TOP 5 and in the full list null indexes come last, in the TOP
\* 5 null distances come last among equal indexes, and a null-index row is
\* in the TOP 5 only when fewer than 5 rows have an index.
C8_NullsLast ==
  /\ Ranked =>
       /\ IndexNullLast(df_rank)
       /\ DistanceNullLast(df_rank)
       /\ (\E i \in 1..Len(df_rank) : IsNaN(df_rank[i].congestion_index))
            => NonNullCount(df_f) < TopN
  /\ pc = "done" =>
       /\ IndexNullLast(df_view)
       /\ Len(df_view) = Len(df_f)

\* six rows, the first without an index: it is ranked fifth
C8_Witness ==
  /\ pc = "done"
  /\ use_location
  /\ Len(df_f) = 6
  /\ IsNaN(df_f[1].congestion_index)
  /\ NonNullCount(df_f) = 4
  /\ Len(df_rank) = TopN
  /\ df_rank[TopN].ix = 1
  /\ IsNaN(df_view[6].congestion_index)

SameKeys(a, b) ==
  a.congestion_index = b.congestion_index /\ a.distance_km = b.distance_km

Position(rows, ix) == CHOOSE k \in 1..Len(rows) : rows[k].ix = ix

InRows(rows, ix) == \E k \in 1..Len(rows) : rows[k].ix = ix

\* ascending with nulls last, key by key
NullLastLess(x, y) == ~IsNaN(x) /\ (IsNaN(y) \/ FloatLess(x, y))

\* a stands before b in the stable order of the ranking
StableBefore(a, b) ==
  \/ NullLastLess(a.congestion_index, b.congestion_index)
  \/ /\ a.congestion_index = b.congestion_index
     /\ NullLastLess(a.distance_km, b.distance_km)
  \/ SameKeys(a, b) /\ a.ix < b.ix

\* C10: the ranking sort is stable: rows equal in index and distance keep
\* their order, and the TOP 5 is the first 5 rows of that order.
C10_RankingStable ==
  Ranked =>
    /\ Len(df_rank) = (IF Len(df_f) < TopN THEN Len(df_f) ELSE TopN)
    /\ \A k \in 1..Len(df_rank) : \E i \in 1..Len(df_f) : df_f[i] = df_rank[k]
    /\ \A i, j \in 1..Len(df_f) :
         (i < j /\ SameKeys(df_f[i], df_f[j]) /\ InRows(df_rank, df_f[j].ix)) =>
           /\ InRows(df_rank, df_f[i].ix)
           /\ Position(df_rank, df_f[i].ix) < Position(df_rank, df_f[j].ix)
    /\ \A k \in 1..(Len(df_rank) - 1) : StableBefore(df_rank[k], df_rank[k + 1])
    /\ \A i \in 1..Len(df_f) :
         ~InRows(df_rank, df_f[i].ix) =>
           \A k \in 1..Len(df_rank) : StableBefore(df_rank[k], df_f[i])

\* six rows, three of them tied on both keys and split by the cut at 5
C10_Witness ==
  /\ pc = "done"
  /\ use_location
  /\ Len(df_f) = 6
  /\ SameKeys(df_f[2], df_f[4]) /\ SameKeys(df_f[4], df_f[6])
  /\ ~SameKeys(df_f[1], df_f[2])
  /\ Len(df_rank) = TopN
  /\ df_rank[4].ix = 2 /\ df_rank[5].ix = 4

\* the query occurs in the name as a literal substring, ignoring case
LiteralContains(name, q) ==
  \E j \in 1..(Len(name) - Len(q) + 1) :
    \A i \in 1..Len(q) : Lower(name[j + i - 1]) = Lower(q[i])

\* C9: a row passes a non-empty name query exactly when its name is not
\* null and contains the query as a literal substring ignoring case; the
\* filter never aborts; an empty query passes every row.
C9_NameFilterIsLiteral ==
  (pc \in {"distance", "rank", "map", "list", "done", "raised"}
     /\ resp.json = "item_list") =>
    /\ pc # "raised"
    /\ \A i \in 1..Len(df.rows) :
         (\E k \in 1..Len(df_f) : df_f[k].ix = df.rows[i].ix)
           <=> \/ name_query = <<>>
               \/ /\ df.rows[i].dutyName.t = "str"
                  /\ LiteralContains(df.rows[i].dutyName.v, name_query)

====
